---- MODULE Spec2Model ----
(***************************************************************************)
(* Model of the MS5803-05BA driver (class MS_5803): PROM coefficient read  *)
(* and CRC-4 validation, the ADC read cycle and the fixed-point conversion *)
(* of the raw samples.                                                     *)
(*                                                                         *)
(* TLC's integers are 32 bits wide, the driver's intermediates are 64 bits *)
(* wide, so every value that can leave the 32-bit range is held as a       *)
(* sign-magnitude number: [neg |-> BOOLEAN, mag |-> little-endian sequence *)
(* of limbs in 0..Limb-1 with no leading zero limb].                       *)
(***************************************************************************)
EXTENDS Integers, Sequences, FiniteSets, TLC

\* ------------------------------------------------------------------------
\* Wide integers (the int64_t / uint32_t / unsigned long long arithmetic)
\* ------------------------------------------------------------------------

LimbBits == 15

Limb == 2 ^ LimbBits

RECURSIVE MNorm(_)
MNorm(a) ==
    IF a = <<>> THEN <<>>
    ELSE IF a[Len(a)] = 0 THEN MNorm(SubSeq(a, 1, Len(a) - 1))
    ELSE a

RECURSIVE MOfNat(_)
MOfNat(n) == IF n = 0 THEN <<>> ELSE <<n % Limb>> \o MOfNat(n \div Limb)

RECURSIVE MAddC(_, _, _)
MAddC(a, b, c) ==
    IF a = <<>> /\ b = <<>> THEN (IF c = 0 THEN <<>> ELSE <<c>>)
    ELSE LET x == IF a = <<>> THEN 0 ELSE Head(a)
             y == IF b = <<>> THEN 0 ELSE Head(b)
             s == x + y + c
         IN  <<s % Limb>> \o MAddC(IF a = <<>> THEN <<>> ELSE Tail(a),
                                   IF b = <<>> THEN <<>> ELSE Tail(b),
                                   s \div Limb)

MAdd(a, b) == MAddC(a, b, 0)

\* a - b - w for magnitudes with a >= b + w
RECURSIVE MSubB(_, _, _)
MSubB(a, b, w) ==
    IF a = <<>> THEN <<>>
    ELSE LET y == IF b = <<>> THEN 0 ELSE Head(b)
             d == Head(a) - y - w
         IN  <<d % Limb>> \o MSubB(Tail(a),
                                   IF b = <<>> THEN <<>> ELSE Tail(b),
                                   IF d < 0 THEN 1 ELSE 0)

MSub(a, b) == MNorm(MSubB(a, b, 0))

\* -1, 0, 1 as a < b, a = b, a > b
RECURSIVE MCmp(_, _)
MCmp(a, b) ==
    IF Len(a) # Len(b) THEN (IF Len(a) < Len(b) THEN -1 ELSE 1)
    ELSE IF a = <<>> THEN 0
    ELSE IF a[Len(a)] # b[Len(b)] THEN (IF a[Len(a)] < b[Len(b)] THEN -1 ELSE 1)
    ELSE MCmp(SubSeq(a, 1, Len(a) - 1), SubSeq(b, 1, Len(b) - 1))

RECURSIVE MMulSmall(_, _, _)
MMulSmall(a, k, c) ==
    IF a = <<>> THEN (IF c = 0 THEN <<>> ELSE <<c>>)
    ELSE LET p == Head(a) * k + c
         IN  <<p % Limb>> \o MMulSmall(Tail(a), k, p \div Limb)

MShiftLimb(a) == IF a = <<>> THEN <<>> ELSE <<0>> \o a

RECURSIVE MMul(_, _)
MMul(a, b) ==
    IF a = <<>> \/ b = <<>> THEN <<>>
    ELSE MAdd(MNorm(MMulSmall(b, Head(a), 0)), MShiftLimb(MMul(Tail(a), b)))

\* quotient and remainder of a magnitude by a small divisor 0 < d <= Limb
RECURSIVE MDivRem(_, _)
MDivRem(a, d) ==
    IF a = <<>> THEN [q |-> <<>>, r |-> 0]
    ELSE LET hi  == MDivRem(Tail(a), d)
             cur == hi.r * Limb + Head(a)
         IN  [q |-> <<cur \div d>> \o hi.q, r |-> cur % d]

MDivSmall(a, d) == MNorm(MDivRem(a, d).q)

\* a >> k
RECURSIVE MShr(_, _)
MShr(a, k) ==
    IF k = 0 \/ a = <<>> THEN a
    ELSE IF k >= LimbBits THEN MShr(Tail(a), k - LimbBits)
    ELSE MDivSmall(a, 2 ^ k)

RECURSIVE MPow2(_)
MPow2(w) == IF w < LimbBits THEN <<2 ^ w>> ELSE <<0>> \o MPow2(w - LimbBits)

\* a mod 2^w
RECURSIVE MLowRaw(_, _)
MLowRaw(a, w) ==
    IF w = 0 \/ a = <<>> THEN <<>>
    ELSE IF w >= LimbBits THEN <<Head(a)>> \o MLowRaw(Tail(a), w - LimbBits)
    ELSE <<Head(a) % (2 ^ w)>>

MLowBits(a, w) == MNorm(MLowRaw(a, w))

Mk(neg, mag) == [neg |-> neg /\ mag # <<>>, mag |-> mag]

BigOf(n) == IF n < 0 THEN Mk(TRUE, MOfNat(-n)) ELSE Mk(FALSE, MOfNat(n))

BZero == Mk(FALSE, <<>>)

BNeg(x) == Mk(~x.neg, x.mag)

BAdd(x, y) ==
    IF x.neg = y.neg THEN Mk(x.neg, MAdd(x.mag, y.mag))
    ELSE IF MCmp(x.mag, y.mag) >= 0 THEN Mk(x.neg, MSub(x.mag, y.mag))
    ELSE Mk(y.neg, MSub(y.mag, x.mag))

BSub(x, y) == BAdd(x, BNeg(y))

BMul(x, y) == Mk(x.neg # y.neg, MMul(x.mag, y.mag))

\* C's integer division by 2^k: the quotient is truncated toward zero
BDivPow2(x, k) == Mk(x.neg, MShr(x.mag, k))

BLess(x, y) ==
    IF x.neg # y.neg THEN x.neg
    ELSE IF x.neg THEN MCmp(x.mag, y.mag) > 0
    ELSE MCmp(x.mag, y.mag) < 0

\* the value of x as a w-bit unsigned integer (conversion to an unsigned type)
ToUnsigned(x, w) ==
    LET Residue(m) ==
            IF x.neg /\ m # <<>> THEN Mk(FALSE, MSub(MPow2(w), m)) ELSE Mk(FALSE, m)
    IN  Residue(MLowBits(x.mag, w))

\* the value of x as a w-bit two's complement integer (conversion to a signed type)
ToSigned(x, w) ==
    LET Signed(u) ==
            IF MCmp(u, MPow2(w - 1)) >= 0 THEN Mk(TRUE, MSub(MPow2(w), u))
            ELSE Mk(FALSE, u)
    IN  Signed(ToUnsigned(x, w).mag)

FitsSigned(x, w) == ToSigned(x, w) = x

\* a wide integer within the 32-bit range as a plain integer
RECURSIVE SToInt(_, _)
SToInt(neg, a) ==
    IF a = <<>> THEN 0
    ELSE (IF neg THEN -Head(a) ELSE Head(a)) + Limb * SToInt(neg, Tail(a))

BToInt(x) == SToInt(x.neg, x.mag)

\* ------------------------------------------------------------------------
\* Bit operations on the non-negative values of the unsigned 8/16-bit types
\* ------------------------------------------------------------------------

RECURSIVE XorBits(_, _)
XorBits(a, b) ==
    IF a = 0 THEN b
    ELSE IF b = 0 THEN a
    ELSE (((a % 2) + (b % 2)) % 2) + 2 * XorBits(a \div 2, b \div 2)

RECURSIVE AndBits(_, _)
AndBits(a, b) ==
    IF a = 0 \/ b = 0 THEN 0
    ELSE ((a % 2) * (b % 2)) + 2 * AndBits(a \div 2, b \div 2)

\* the two operators on hexadecimal digits, tabulated
XorNibble == [a \in 0..15 |-> [b \in 0..15 |-> XorBits(a, b)]]

AndNibble == [a \in 0..15 |-> [b \in 0..15 |-> AndBits(a, b)]]

\* a ^ b
RECURSIVE Xor(_, _)
Xor(a, b) ==
    IF a = 0 THEN b
    ELSE IF b = 0 THEN a
    ELSE XorNibble[a % 16][b % 16] + 16 * Xor(a \div 16, b \div 16)

\* a & b
RECURSIVE And(_, _)
And(a, b) ==
    IF a = 0 \/ b = 0 THEN 0
    ELSE AndNibble[a % 16][b % 16] + 16 * And(a \div 16, b \div 16)

Shl(a, k) == a * (2 ^ k)

Shr(a, k) == a \div (2 ^ k)

\* ------------------------------------------------------------------------
\* State
\* ------------------------------------------------------------------------

VARIABLES
    ms,         \* the MS_5803 instance: one record field per data member
    ms2,        \* a second instance holding the same coefficients
    build,      \* what the build makes of signed overflow: "wrap" or "wide"
    trace,      \* collaborator calls (Wire, delay, Serial) and the convertRaw
                \* call made by the last public operation, in order
    lastOp,     \* the last public operation called on ms
    initCalled, \* initializeMS_5803 has been called on ms
    initRet,    \* the value the last initializeMS_5803 returned
    initArgs,   \* the arguments and bus responses of the last initializeMS_5803
    populated,  \* the coefficients as written by the PROM loop of that call
    lastIn,     \* the (d1Val, d2Val) of the last convertRaw on ms, or <<>>
    lastIn2,    \* the same for ms2
    stale,      \* ms held non-zero second-order terms when that convertRaw began
    stale2,     \* the same for ms2
    calls,      \* number of public operations called so far
    crcIn,      \* CRC check: the coefficient array given
    crcBit,     \* CRC check: the index of the flipped bit, or -1
    crcOut      \* CRC check: the values MS_5803_CRC returned (given, flipped)

vars == <<ms, ms2, build, trace, lastOp, initCalled, initRet, initArgs,
          populated, lastIn, lastIn2, stale, stale2, calls, crcIn, crcBit, crcOut>>

\* a bus read that delivers no byte (Wire.available() is 0)
NoBytes == -1

\* ------------------------------------------------------------------------
\* MS_5803_CRC
\* ------------------------------------------------------------------------

\* "choose LSB or MSB": the byte of the array taken at step cnt
CrcByteMSBOnly(coeffs, cnt) == Shr(coeffs[Shr(cnt, 1)], 8)

CrcByte(coeffs, cnt) ==
    IF cnt % 2 = 1 THEN And(coeffs[Shr(cnt, 1)], 255)
    ELSE Shr(coeffs[Shr(cnt, 1)], 8)

\* one pass of the inner loop; n_rem is a uint16_t
CrcShift(n_rem) ==
    IF And(n_rem, 32768) # 0 THEN Xor(Shl(n_rem, 1), 12288) % 65536
    ELSE Shl(n_rem, 1) % 65536

\* for (n_bit = 8; n_bit > 0; n_bit--): v holds the loop's variables
RECURSIVE CrcBits(_)
CrcBits(v) ==
    IF v.n_bit > 0
    THEN CrcBits([n_rem |-> CrcShift(v.n_rem), n_bit |-> v.n_bit - 1])
    ELSE v.n_rem

\* for (cnt = 0; cnt < 16; cnt++): v holds the loop's variables
RECURSIVE CrcLoop(_, _)
CrcLoop(coeffs, v) ==
    IF v.cnt < 16
    THEN CrcLoop(coeffs,
                 [cnt   |-> v.cnt + 1,
                  n_rem |-> CrcBits([n_rem |-> Xor(v.n_rem, CrcByte(coeffs, v.cnt)),
                                     n_bit |-> 8])])
    ELSE v.n_rem

\* the function without its last assignment to sensorCoeffs[7]
MS_5803_CRC_NoRestore(self) ==
    LET Run(zeroed) ==
            [self |-> zeroed,
             ret  |-> Xor(And(15, Shr(CrcLoop(zeroed.sensorCoeffs,
                                              [cnt |-> 0, n_rem |-> 0]), 12)), 0) % 256]
    IN  Run([self EXCEPT !.sensorCoeffs[7] = And(65280, @)])

\* [self |-> the instance on return, ret |-> the uint8_t returned]
MS_5803_CRC(self) ==
    LET crc_read == self.sensorCoeffs[7]
        Run(zeroed) ==
            [self |-> [zeroed EXCEPT !.sensorCoeffs[7] = crc_read],
             ret  |-> Xor(And(15, Shr(CrcLoop(zeroed.sensorCoeffs,
                                              [cnt |-> 0, n_rem |-> 0]), 12)), 0) % 256]
    IN  Run([self EXCEPT !.sensorCoeffs[7] = And(65280, @)])

\* ------------------------------------------------------------------------
\* convertRaw
\* ------------------------------------------------------------------------

Builds == {"wrap", "wide"}

\* The result of an operation in (signed, 32-bit) int whose exact value is x.
\* Overflow is undefined: the build either keeps the low 32 bits or carries
\* the exact value on in a wider register.
IntOp(x) ==
    LET Result(low) == IF low = x THEN x ELSE IF build = "wrap" THEN low ELSE x
    IN  Result(ToSigned(x, 32))

\* The same for an operation in int64_t.
LongOp(x) ==
    LET Result(low) == IF low = x THEN x ELSE IF build = "wrap" THEN low ELSE x
    IN  Result(ToSigned(x, 64))

\* (float)n for a 32-bit n: n rounded to 24 significant bits (nearest, ties to
\* even), as [m |-> mantissa, e |-> exponent], n ~ m * 2^e
RECURSIVE FloatShift(_, _)
FloatShift(a, k) == IF a \div (2 ^ k) < 2 ^ 24 THEN k ELSE FloatShift(a, k + 1)

F32OfInt(n) ==
    LET a    == IF n < 0 THEN -n ELSE n
        k    == FloatShift(a, 0)
        q    == a \div (2 ^ k)
        r    == a % (2 ^ k)
        half == IF k = 0 THEN 1 ELSE 2 ^ (k - 1)
        up   == k > 0 /\ (r > half \/ (r = half /\ q % 2 = 1))
        m    == IF up THEN q + 1 ELSE q
        sgn  == IF n < 0 THEN -1 ELSE 1
    IN  IF m = 2 ^ 24 THEN [m |-> sgn * (2 ^ 23), e |-> k + 1]
        ELSE [m |-> sgn * m, e |-> k]

\* f / d in float: the correctly rounded quotient, kept as its two operands
FloatDiv(f, d) == [num |-> f, den |-> d]

\* dT and the first-order TEMP
FirstOrder(self, d2Val) ==
    LET c5 == IntOp(BMul(ToSigned(BigOf(self.sensorCoeffs[5]), 32), BigOf(256)))
        Temp(dT) ==
            LongOp(BAdd(BigOf(2000),
                        BDivPow2(LongOp(BMul(BigOf(dT), BigOf(self.sensorCoeffs[6]))), 23)))
        Set(dT) == [self EXCEPT !.dT = dT, !.TEMP = BToInt(ToSigned(Temp(dT), 32))]
    IN  Set(BToInt(ToSigned(IntOp(BSub(ToSigned(BigOf(d2Val), 32), c5)), 32)))

\* 3 * ((int64_t)dT * dT) / POW_2_33: the divisor is unsigned long long, so
\* the dividend is converted to it and the quotient is unsigned
T2Of(dT) ==
    LET num == LongOp(BMul(BigOf(3), LongOp(BMul(BigOf(dT), BigOf(dT)))))
        quo == Mk(FALSE, MShr(ToUnsigned(num, 64).mag, 33))
    IN  ToSigned(ToSigned(ToSigned(quo, 64), 32), 64)

\* k * ((TEMP-2000) * (TEMP-2000)) / 8, every operation in int
SquareTerm(k, TEMP) ==
    LET Term(t) == ToSigned(BDivPow2(IntOp(BMul(BigOf(k), IntOp(BMul(t, t)))), 3), 64)
    IN  Term(IntOp(BSub(BigOf(TEMP), BigOf(2000))))

\* the else branch omitted: the terms of the previous cycle stay
SecondOrderStale(self) ==
    IF self.TEMP < 2000
    THEN [self EXCEPT !.varT2 = T2Of(self.dT),
                      !.OFF2  = SquareTerm(3, self.TEMP),
                      !.Sens2 = SquareTerm(7, self.TEMP)]
    ELSE self

\* second order temperature compensation
SecondOrder(self) ==
    IF self.TEMP < 2000
    THEN [self EXCEPT !.varT2 = T2Of(self.dT),
                      !.OFF2  = SquareTerm(3, self.TEMP),
                      !.Sens2 = SquareTerm(7, self.TEMP)]
    ELSE [self EXCEPT !.varT2 = BZero, !.OFF2 = BZero, !.Sens2 = BZero]

\* (int64_t)c * scale + (d * (int64_t)dT) / 2^shift
BaseTerm(c, scale, d, dT, shift) ==
    LongOp(BAdd(LongOp(BMul(BigOf(c), BigOf(scale))),
                BDivPow2(LongOp(BMul(BigOf(d), BigOf(dT))), shift)))

\* initial Offset and Sensitivity (5 bar sensor)
BaseComp(self) ==
    [self EXCEPT
        !.Offset      = ToSigned(BaseTerm(self.sensorCoeffs[2], 262144,
                                          self.sensorCoeffs[4], self.dT, 5), 64),
        !.Sensitivity = ToSigned(BaseTerm(self.sensorCoeffs[1], 131072,
                                          self.sensorCoeffs[3], self.dT, 7), 64)]

\* ((d1Val * Sensitivity) / 2097152 - Offset) / 32768 in int64_t
PressureOf(d1Val, Sensitivity, Offset) ==
    LET scaled == BDivPow2(LongOp(BMul(BigOf(d1Val), Sensitivity)), 21)
    IN  BDivPow2(LongOp(BSub(scaled, Offset)), 15)

\* the adjustment by the second-order terms and the final values
Compensate(self, d1Val) ==
    LET Final(TEMP, Offset, Sensitivity, mbarInt) ==
            [self EXCEPT !.TEMP = TEMP, !.Offset = Offset, !.Sensitivity = Sensitivity,
                         !.mbarInt = mbarInt,
                         !.mbar  = FloatDiv(F32OfInt(mbarInt), 100),
                         !.tempC = FloatDiv(F32OfInt(TEMP), 100)]
        Adjusted(TEMP, Offset, Sensitivity) ==
            Final(TEMP, Offset, Sensitivity,
                  BToInt(ToSigned(PressureOf(d1Val, Sensitivity, Offset), 32)))
    IN  Adjusted(BToInt(ToSigned(LongOp(BSub(BigOf(self.TEMP), self.varT2)), 32)),
                 ToSigned(LongOp(BSub(self.Offset, self.OFF2)), 64),
                 ToSigned(LongOp(BSub(self.Sensitivity, self.Sens2)), 64))

convertRaw(self, d1Val, d2Val) ==
    Compensate(BaseComp(SecondOrder(FirstOrder(self, d2Val))), d1Val)

\* ------------------------------------------------------------------------
\* The bus collaborator, and the command bytes (their #defines are not part
\* of the source file: the values are those of the MS5803 command set)
\* ------------------------------------------------------------------------

CMD_RESET == 30

CMD_ADC_READ == 0

CMD_ADC_CONV == 64

CMD_ADC_D1 == 0

CMD_ADC_D2 == 16

CMD_ADC_256 == 0

CMD_ADC_512 == 2

CMD_ADC_1024 == 4

CMD_ADC_2048 == 6

CMD_ADC_4096 == 8

Ev(op, arg) == [op |-> op, arg |-> arg]

\* Wire.beginTransmission; Wire.write(byte); Wire.endTransmission
WriteCommand(byte) == Ev("write", byte)

\* Wire.requestFrom(address, n)
RequestBytes(n) == Ev("request", n)

Delay(n) == Ev("delay", n)

\* the switch compares the whole command: the D2 commands match no case
AdcDelayNoMask(commandADC) ==
    CASE commandADC = CMD_ADC_256  -> <<Delay(1)>>
      [] commandADC = CMD_ADC_512  -> <<Delay(3)>>
      [] commandADC = CMD_ADC_1024 -> <<Delay(4)>>
      [] commandADC = CMD_ADC_2048 -> <<Delay(6)>>
      [] commandADC = CMD_ADC_4096 -> <<Delay(10)>>
      [] OTHER -> <<>>

\* switch (commandADC & 0x0F)
AdcDelay(commandADC) ==
    CASE And(commandADC, 15) = CMD_ADC_256  -> <<Delay(1)>>
      [] And(commandADC, 15) = CMD_ADC_512  -> <<Delay(3)>>
      [] And(commandADC, 15) = CMD_ADC_1024 -> <<Delay(4)>>
      [] And(commandADC, 15) = CMD_ADC_2048 -> <<Delay(6)>>
      [] And(commandADC, 15) = CMD_ADC_4096 -> <<Delay(10)>>
      [] OTHER -> <<>>

\* resp: the 24-bit value the device delivers, or NoBytes.
\* [self, trace, ret |-> the uint32_t returned]
MS_5803_ADC(self, log, commandADC, resp) ==
    LET Read(got) ==
            [self  |-> got,
             trace |-> log \o <<WriteCommand(CMD_ADC_CONV + commandADC)>>
                           \o AdcDelay(commandADC)
                           \o <<WriteCommand(CMD_ADC_READ), RequestBytes(3)>>,
             ret   |-> Shl(got.HighByte, 16) + Shl(got.MidByte, 8) + got.LowByte]
    IN  Read(IF resp = NoBytes THEN self
             ELSE [self EXCEPT !.HighByte = Shr(resp, 16) % 256,
                               !.MidByte  = Shr(resp, 8) % 256,
                               !.LowByte  = resp % 256])

\* ------------------------------------------------------------------------
\* readSensor
\* ------------------------------------------------------------------------

\* both conversions at one oversampling setting
ReadBoth(self, cmd, r1, r2) ==
    LET Second(a2) == [self |-> [a2.self EXCEPT !.varD2 = a2.ret], trace |-> a2.trace]
        First(a1)  == Second(MS_5803_ADC([a1.self EXCEPT !.varD1 = a1.ret], a1.trace,
                                         CMD_ADC_D2 + cmd, r2))
    IN  First(MS_5803_ADC(self, <<>>, CMD_ADC_D1 + cmd, r1))

\* the if / else if chain on _Resolution: both samples, or nothing at all
ReadSamples(self, r1, r2) ==
    IF self.Resolution = 256 THEN ReadBoth(self, CMD_ADC_256, r1, r2)
    ELSE IF self.Resolution = 512 THEN ReadBoth(self, CMD_ADC_512, r1, r2)
    ELSE IF self.Resolution = 1024 THEN ReadBoth(self, CMD_ADC_1024, r1, r2)
    ELSE IF self.Resolution = 2048 THEN ReadBoth(self, CMD_ADC_2048, r1, r2)
    ELSE IF self.Resolution = 4096 THEN ReadBoth(self, CMD_ADC_4096, r1, r2)
    ELSE [self |-> self, trace |-> <<>>]

\* the function returns without converting when no branch matched
readSensorGuarded(self, r1, r2) ==
    LET Convert(adc) ==
            IF adc.trace = <<>> THEN adc
            ELSE [self  |-> convertRaw(adc.self, adc.self.varD1, adc.self.varD2),
                  trace |-> adc.trace \o <<Ev("convertRaw", 0)>>]
    IN  Convert(ReadSamples(self, r1, r2))

\* r1, r2: what the device delivers to the two ADC reads. [self, trace]
readSensor(self, r1, r2) ==
    LET Convert(adc) ==
            [self  |-> convertRaw(adc.self, adc.self.varD1, adc.self.varD2),
             trace |-> adc.trace \o <<Ev("convertRaw", 0)>>]
    IN  Convert(ReadSamples(self, r1, r2))

\* ------------------------------------------------------------------------
\* resetSensor, initializeMS_5803
\* ------------------------------------------------------------------------

resetSensor == <<WriteCommand(CMD_RESET), Delay(5)>>

ValidResolution(r) == r = 256 \/ r = 512 \/ r = 1024 \/ r = 2048 \/ r = 4096

\* "Display the oversampling resolution or an error message"
ResolutionMessage(self, Verbose) ==
    IF Verbose
    THEN IF ValidResolution(self.Resolution)
         THEN <<Ev("printSetting", self.Resolution)>>
         ELSE <<Ev("printError", 0)>>
    ELSE <<>>

\* for (int i = 0; i < 8; i++): v holds i, the instance and the trace;
\* prom[i] is the word the device delivers to read i, or NoBytes
RECURSIVE PromLoop(_, _, _)
PromLoop(v, Verbose, prom) ==
    IF v.i < 8
    THEN LET Step(got, word) ==
                 [i     |-> v.i + 1,
                  self  |-> [got EXCEPT !.sensorCoeffs[v.i] = word],
                  trace |-> v.trace
                            \o <<WriteCommand(160 + (v.i * 2)), RequestBytes(2)>>
                            \o (IF Verbose
                                THEN <<Ev("printCoeff", word), Delay(10)>>
                                ELSE <<>>)]
             Read(got) == Step(got, (Shl(got.HighByte, 8) + got.LowByte) % 65536)
         IN  PromLoop(Read(IF prom[v.i] = NoBytes THEN v.self
                           ELSE [v.self EXCEPT !.HighByte = Shr(prom[v.i], 8) % 256,
                                               !.LowByte  = prom[v.i] % 256]),
                      Verbose, prom)
    ELSE v

\* the stored CRC taken as the low four bits of the word
StoredCrcNibble(self) == self.sensorCoeffs[7] % 16

\* uint8_t p_crc = sensorCoeffs[7]
StoredCrc(self) == self.sensorCoeffs[7] % 256

\* [self, trace, ret |-> the boolean returned, populated |-> the coefficients
\*  as the loop left them]
initializeMS_5803(self, Verbose, prom) ==
    LET start == <<Ev("begin", 0)>> \o resetSensor \o ResolutionMessage(self, Verbose)
        Check(loop, p_crc, crc) ==
            [self      |-> crc.self,
             trace     |-> loop.trace
                           \o (IF Verbose
                               THEN <<Ev("printCrc", p_crc), Ev("printCrc", crc.ret)>>
                               ELSE <<>>),
             ret       |-> ~(p_crc # crc.ret),
             populated |-> loop.self.sensorCoeffs]
        Coeffs(loop) == Check(loop, StoredCrc(loop.self), MS_5803_CRC(loop.self))
    IN  Coeffs(PromLoop([i |-> 0, self |-> self, trace |-> start], Verbose, prom))

\* ------------------------------------------------------------------------
\* Inputs
\* ------------------------------------------------------------------------

MaxCalls == 3

Words(w) == [i \in 0..7 |-> w[i + 1]]

\* the coefficient set of the worked example, CRC field still empty
RefWords == Words(<<0, 46372, 43981, 29059, 27842, 31553, 28165, 0>>)

\* every coefficient at its largest value
ExtWords == Words(<<65535, 65535, 65535, 65535, 65535, 65535, 65535, 65280>>)

ZeroWords == Words(<<0, 0, 0, 0, 0, 0, 0, 0>>)

\* the example of application note AN520
AN520Words == Words(<<12594, 13108, 13622, 14136, 14656, 16706, 17220, 17664>>)

CrcOfWords(w) == MS_5803_CRC([sensorCoeffs |-> w]).ret

\* the words with the low byte of word 7 set to the CRC of the words plus d
\* (d = 0: a consistent PROM image)
Sealed(w, d) == [w EXCEPT ![7] = And(65280, @) + ((CrcOfWords(w) + d) % 256)]

\* what the device delivers to the eight PROM reads of one initialization
PromResponses ==
    { Sealed(RefWords, 0),              \* a consistent image
      Sealed(RefWords, 1),              \* CRC nibble wrong
      Sealed(RefWords, 160),            \* CRC nibble right, bits 4..7 of the word set
      [i \in 0..7 |-> NoBytes] }        \* no read is answered

\* what the device delivers to an ADC read
D1Responses == {4234076, NoBytes}

D2Responses == {8374211, NoBytes}

Resolutions == {256, 512, 1024, 2048, 4096, 100}

\* the members the constructor leaves unset: zeroed storage, or what the
\* storage held before
Indeterminate ==
    { [word |-> 0, byte |-> 0, long |-> 0],
      [word |-> 42405, byte |-> 165, long |-> 631612837] }

\* MS_5803::MS_5803(Resolution) on storage holding j
Construct(Resolution, j) ==
    [ mbar         |-> FloatDiv(F32OfInt(j.long), 1),
      tempC        |-> FloatDiv(F32OfInt(j.long), 1),
      varD1        |-> j.long,
      varD2        |-> j.long,
      mbarInt      |-> j.long,
      Resolution   |-> Resolution,
      sensorCoeffs |-> [i \in 0..7 |-> j.word],
      dT           |-> 0,
      TEMP         |-> 0,
      Offset       |-> BZero,
      Sensitivity  |-> BZero,
      varT2        |-> BZero,
      OFF2         |-> BZero,
      Sens2        |-> BZero,
      HighByte     |-> j.byte,
      MidByte      |-> j.byte,
      LowByte      |-> j.byte ]

\* ------------------------------------------------------------------------
\* The driver: one instance, initializeMS_5803 and readSensor called in any
\* order
\* ------------------------------------------------------------------------

NoArgs == [Verbose |-> FALSE, prom |-> [i \in 0..7 |-> NoBytes]]

Init ==
    /\ build \in Builds
    /\ \E r \in Resolutions, j \in Indeterminate :
          /\ ms = Construct(r, j)
          /\ ms2 = Construct(r, j)
          /\ populated = ms.sensorCoeffs
    /\ trace = <<>>
    /\ lastOp = "construct"
    /\ initCalled = FALSE
    /\ initRet = FALSE
    /\ initArgs = NoArgs
    /\ lastIn = <<>>
    /\ lastIn2 = <<>>
    /\ stale = FALSE
    /\ stale2 = FALSE
    /\ calls = 0
    /\ crcIn = ZeroWords
    /\ crcBit = -1
    /\ crcOut = <<>>

Initialize(Verbose, prom) ==
    /\ calls < MaxCalls
    /\ \E r \in {initializeMS_5803(ms, Verbose, prom)} :
           /\ ms' = r.self
           /\ trace' = r.trace
           /\ initRet' = r.ret
           /\ populated' = r.populated
    /\ lastOp' = "initializeMS_5803"
    /\ initCalled' = TRUE
    /\ initArgs' = [Verbose |-> Verbose, prom |-> prom]
    /\ calls' = calls + 1
    /\ UNCHANGED <<ms2, build, lastIn, lastIn2, stale, stale2, crcIn, crcBit, crcOut>>

ReadSensor(r1, r2) ==
    /\ calls < MaxCalls
    /\ \E r \in {readSensor(ms, r1, r2)} :
           /\ ms' = r.self
           /\ trace' = r.trace
           /\ lastIn' = IF r.trace # <<>> /\ r.trace[Len(r.trace)].op = "convertRaw"
                        THEN <<r.self.varD1, r.self.varD2>>
                        ELSE lastIn
    /\ lastOp' = "readSensor"
    /\ calls' = calls + 1
    /\ UNCHANGED <<ms2, build, initCalled, initRet, initArgs, populated, lastIn2,
                   stale, stale2, crcIn, crcBit, crcOut>>

Next ==
    \/ \E Verbose \in BOOLEAN, prom \in PromResponses : Initialize(Verbose, prom)
    \/ \E r1 \in D1Responses, r2 \in D2Responses : ReadSensor(r1, r2)

Spec == Init /\ [][Next]_vars

\* ------------------------------------------------------------------------
\* convertRaw as a function: two instances initialized from the same PROM,
\* each converting samples in any order
\* ------------------------------------------------------------------------

ConvImages == {Sealed(RefWords, 0), Sealed(ExtWords, 0)}

ConvD1 == {4234076, 16777215}

\* the ends of the range, the worked example, and the samples that put the
\* first-order TEMP of the worked example's coefficients at 2000 and at 1999
ConvD2 == {0, 8077270, 8077567, 8374211, 16777215}

HasSecondOrder(self) ==
    self.varT2 # BZero \/ self.OFF2 # BZero \/ self.Sens2 # BZero

InitConv ==
    /\ build \in Builds
    /\ \E image \in ConvImages :
          \E r \in {initializeMS_5803(Construct(512, [word |-> 0, byte |-> 0, long |-> 0]),
                                      FALSE, image)} :
              /\ ms = r.self
              /\ ms2 = r.self
              /\ populated = r.populated
              /\ initRet = r.ret
              /\ trace = r.trace
              /\ initArgs = [Verbose |-> FALSE, prom |-> image]
    /\ lastOp = "initializeMS_5803"
    /\ initCalled = TRUE
    /\ lastIn = <<>>
    /\ lastIn2 = <<>>
    /\ stale = FALSE
    /\ stale2 = FALSE
    /\ calls = 0
    /\ crcIn = ZeroWords
    /\ crcBit = -1
    /\ crcOut = <<>>

ConvertFirst(d1, d2) ==
    /\ ms' = convertRaw(ms, d1, d2)
    /\ lastIn' = <<d1, d2>>
    /\ stale' = HasSecondOrder(ms)
    /\ UNCHANGED <<ms2, build, trace, lastOp, initCalled, initRet, initArgs,
                   populated, lastIn2, stale2, calls, crcIn, crcBit, crcOut>>

ConvertSecond(d1, d2) ==
    /\ ms2' = convertRaw(ms2, d1, d2)
    /\ lastIn2' = <<d1, d2>>
    /\ stale2' = HasSecondOrder(ms2)
    /\ UNCHANGED <<ms, build, trace, lastOp, initCalled, initRet, initArgs,
                   populated, lastIn, stale, calls, crcIn, crcBit, crcOut>>

NextConv ==
    \/ \E d1 \in ConvD1, d2 \in ConvD2 : ConvertFirst(d1, d2)
    \/ \E d1 \in ConvD1, d2 \in ConvD2 : ConvertSecond(d1, d2)

SpecConv == InitConv /\ [][NextConv]_vars

\* ------------------------------------------------------------------------
\* MS_5803_CRC as a function: a coefficient array, and the array with each
\* bit of words 0..6 flipped in turn
\* ------------------------------------------------------------------------

CrcInputs == {Sealed(RefWords, 0), ZeroWords, Sealed(ExtWords, 0), AN520Words}

FlipBit(w, k) == [w EXCEPT ![k \div 16] = Xor(@, 2 ^ (k % 16))]

InitCrc ==
    /\ crcIn \in CrcInputs
    /\ crcBit = -1
    /\ crcOut = <<>>
    /\ build = "wrap"
    /\ ms = Construct(512, [word |-> 0, byte |-> 0, long |-> 0])
    /\ ms2 = ms
    /\ populated = ms.sensorCoeffs
    /\ trace = <<>>
    /\ lastOp = "construct"
    /\ initCalled = FALSE
    /\ initRet = FALSE
    /\ initArgs = NoArgs
    /\ lastIn = <<>>
    /\ lastIn2 = <<>>
    /\ stale = FALSE
    /\ stale2 = FALSE
    /\ calls = 0

FlipNext ==
    /\ crcBit + 1 < 7 * 16
    /\ crcBit' = crcBit + 1
    /\ crcOut' = <<CrcOfWords(crcIn), CrcOfWords(FlipBit(crcIn, crcBit + 1))>>
    /\ UNCHANGED <<ms, ms2, build, trace, lastOp, initCalled, initRet, initArgs,
                   populated, lastIn, lastIn2, stale, stale2, calls, crcIn>>

NextCrc == FlipNext

SpecCrc == InitCrc /\ [][NextCrc]_vars

\* ------------------------------------------------------------------------
\* Properties
\* ------------------------------------------------------------------------

AfterInit == lastOp = "initializeMS_5803"

AfterRead == lastOp = "readSensor"

AllDelivered == \A i \in 0..7 : initArgs.prom[i] # NoBytes

\* the last public operation ended by calling convertRaw
ReadingProduced ==
    AfterRead /\ trace # <<>> /\ trace[Len(trace)] = Ev("convertRaw", 0)

\* C1: for eight words read from the PROM, initializeMS_5803 returns true if
\* and only if the CRC-4 computed over them equals the low four bits of
\* coefficient[7].
C1_TrueIffNibbleMatches ==
    (AfterInit /\ AllDelivered)
        => (initRet <=> (MS_5803_CRC(ms).ret = StoredCrcNibble(ms)))

\* C2, as claimed: a reading is produced only when the most recent
\* initializeMS_5803 returned true.
C2_ReadingOnlyWhenValidated == ReadingProduced => (initCalled /\ initRet)

\* C2, amended: every readSensor call converts and updates tempC and mbar
\* from the samples and coefficients the instance holds, whether or not
\* initializeMS_5803 was called and whatever it returned.
C2_EveryReadProducesReading ==
    AfterRead =>
        /\ ReadingProduced
        /\ lastIn = <<ms.varD1, ms.varD2>>
        /\ ms.tempC = FloatDiv(F32OfInt(ms.TEMP), 100)
        /\ ms.mbar = FloatDiv(F32OfInt(ms.mbarInt), 100)

\* a reading produced after an initialization that reported a CRC mismatch
C2_ReadingAfterFailedInit == ReadingProduced /\ initCalled /\ ~initRet

\* C3: with an oversampling resolution outside {256, 512, 1024, 2048, 4096},
\* initializeMS_5803 does not return true.
C3_InvalidResolutionReported ==
    (AfterInit /\ ~ValidResolution(ms.Resolution)) => ~initRet

\* C5: when a PROM read delivers no bytes, initializeMS_5803 does not
\* return true.
C5_BusFailureSurfaced ==
    (AfterInit /\ \E i \in 0..7 : initArgs.prom[i] = NoBytes) => ~initRet

\* C6: flipping any single bit of coefficients[0..6] changes the value
\* MS_5803_CRC returns.
C6_SingleBitFlipChangesCrc == crcBit >= 0 => crcOut[1] # crcOut[2]

\* the last bit of word 6 flipped, and detected
C6_LastBitFlipped == crcBit = (7 * 16) - 1 /\ crcOut[1] # crcOut[2]

\* C7: the coefficients are written only by the PROM loop of
\* initializeMS_5803: MS_5803_CRC returns them as it found them and
\* readSensor / convertRaw never change them.
C7_CoefficientsAsPopulated == ms.sensorCoeffs = populated

\* a read cycle after an initialization whose word 7 has a non-zero low byte
C7_ReadAfterInit == AfterRead /\ initCalled /\ populated[7] % 256 # 0

\* the values the unbounded formulas of the conversion give
ExactConvert(d1, d2, c) ==
    LET Div(x, k) == BDivPow2(x, k)
        Sq(x) == BMul(x, x)
        Out(dT, t, T2, OFF2, SENS2, OFF, SENS) ==
            [dT          |-> dT,
             TEMP        |-> BSub(t, T2),
             T2          |-> T2,
             OFF2        |-> OFF2,
             SENS2       |-> SENS2,
             OFFSET      |-> OFF,
             SENSITIVITY |-> SENS,
             pressureInt |-> Div(BSub(Div(BMul(BigOf(d1), SENS), 21), OFF), 15)]
        Second(dT, t, T2, OFF2, SENS2) ==
            Out(dT, t, T2, OFF2, SENS2,
                BSub(BAdd(BMul(BigOf(c[2]), BigOf(262144)),
                          Div(BMul(BigOf(c[4]), dT), 5)), OFF2),
                BSub(BAdd(BMul(BigOf(c[1]), BigOf(131072)),
                          Div(BMul(BigOf(c[3]), dT), 7)), SENS2))
        First(dT, t) ==
            IF BLess(t, BigOf(2000))
            THEN Second(dT, t, Div(BMul(BigOf(3), Sq(dT)), 33),
                        Div(BMul(BigOf(3), Sq(BSub(t, BigOf(2000)))), 3),
                        Div(BMul(BigOf(7), Sq(BSub(t, BigOf(2000)))), 3))
            ELSE Second(dT, t, BZero, BZero, BZero)
        Start(dT) == First(dT, BAdd(BigOf(2000), Div(BMul(dT, BigOf(c[6])), 23)))
    IN  Start(BSub(BigOf(d2), BMul(BigOf(c[5]), BigOf(256))))

\* the same intermediates as the instance holds them after convertRaw
Intermediates(self) ==
    [dT          |-> BigOf(self.dT),
     TEMP        |-> BigOf(self.TEMP),
     T2          |-> self.varT2,
     OFF2        |-> self.OFF2,
     SENS2       |-> self.Sens2,
     OFFSET      |-> self.Offset,
     SENSITIVITY |-> self.Sensitivity,
     pressureInt |-> BigOf(self.mbarInt)]

\* C4: for d1, d2 in 0..2^24-1 and coefficients in 0..65535 every
\* intermediate of convertRaw equals the value of the same formula in
\* unbounded integers: none wraps around.
C4_NoIntermediateWraps ==
    lastIn # <<>>
        => Intermediates(ms) = ExactConvert(lastIn[1], lastIn[2], ms.sensorCoeffs)

\* what convertRaw leaves in an instance
Outputs(self) ==
    <<self.tempC, self.mbar, self.mbarInt, self.dT, self.TEMP, self.varT2,
      self.OFF2, self.Sens2, self.Offset, self.Sensitivity>>

\* C8: two instances holding the same coefficients and given the same d1
\* and d2 end with identical outputs and scratch values, whatever earlier
\* cycles left in them.
C8_ConvertDeterministic ==
    (lastIn # <<>> /\ lastIn = lastIn2 /\ ms.sensorCoeffs = ms2.sensorCoeffs)
        => Outputs(ms) = Outputs(ms2)

\* the same samples converted by an instance that held second-order terms
\* of an earlier cycle and by one that held none, above 20 C
C8_AfterDifferentHistories ==
    /\ lastIn # <<>>
    /\ lastIn = lastIn2
    /\ ms.sensorCoeffs = ms2.sensorCoeffs
    /\ stale
    /\ ~stale2
    /\ ~HasSecondOrder(ms)

\* C9: T2, OFF2 and SENS2 are zero whenever the first-order TEMP is at least
\* 2000, and whenever it is at most 1999 they are 3*dT*dT/2^33,
\* 3*(TEMP-2000)^2/8 and 7*(TEMP-2000)^2/8.
C9_BranchAtTwentyDegrees ==
    lastIn # <<>> =>
        LET first == FirstOrder(ms, lastIn[2])
            exact == ExactConvert(lastIn[1], lastIn[2], ms.sensorCoeffs)
        IN  /\ first.TEMP >= 2000 =>
                /\ ms.varT2 = BZero /\ ms.OFF2 = BZero /\ ms.Sens2 = BZero
                /\ ms.TEMP = first.TEMP
            /\ first.TEMP <= 1999 =>
                /\ ms.varT2 = exact.T2
                /\ ms.OFF2 = exact.OFF2
                /\ ms.Sens2 = exact.SENS2

\* the settling delay in ms of each oversampling resolution
SettlingDelay(r) ==
    CASE r = 256 -> 1 [] r = 512 -> 3 [] r = 1024 -> 4 [] r = 2048 -> 6 [] r = 4096 -> 10

\* the resolution selector of the convert command
Selector(r) ==
    CASE r = 256  -> CMD_ADC_256
      [] r = 512  -> CMD_ADC_512
      [] r = 1024 -> CMD_ADC_1024
      [] r = 2048 -> CMD_ADC_2048
      [] r = 4096 -> CMD_ADC_4096

\* convert command, settling delay, ADC read command, three bytes requested
SampleCycle(which, r) ==
    <<WriteCommand(CMD_ADC_CONV + which + Selector(r)), Delay(SettlingDelay(r)),
      WriteCommand(CMD_ADC_READ), RequestBytes(3)>>

\* C10: a readSensor call with a valid resolution issues the D1 cycle, then
\* the D2 cycle, each with the settling delay of the resolution before the
\* ADC read, and only then converts.
C10_ReadCycleOrder ==
    (AfterRead /\ ValidResolution(ms.Resolution))
        => trace = SampleCycle(CMD_ADC_D1, ms.Resolution)
                   \o SampleCycle(CMD_ADC_D2, ms.Resolution)
                   \o <<Ev("convertRaw", 0)>>

\* a read cycle at the highest resolution, both delays 10 ms
C10_ReadAt4096 ==
    /\ AfterRead
    /\ ms.Resolution = 4096
    /\ Len(trace) = 9
    /\ trace[2] = Delay(10)
    /\ trace[6] = Delay(10)
====
